---- MODULE Spec2Model ----
(***************************************************************************)
(* Graph readout layers (mattergen/common/utils/readout.py) and the        *)
(* configuration loader (mattergen/common/utils/config_utils.py).          *)
(*                                                                         *)
(* Tensors are sequences (vectors) and sequences of rows (matrices).       *)
(* Node features and layer parameters are integers; the results of exp,    *)
(* sigmoid and division are fixed-point numbers counted in units of 1/One. *)
(***************************************************************************)
EXTENDS Integers, Sequences, FiniteSets, TLC

VARIABLES
    obj,               \* the readout instance, NoObj before/without construction
    ctor_call,         \* history: the constructor called and its type argument
    ctor_err,          \* the exception construction ended with, "none" without
    node_embeddings,   \* the caller's tensor [V, node_dim]
    node_to_graph_id,  \* the caller's tensor [V]
    num_graphs,        \* the caller's int
    result,            \* what the last forward call returned or raised
    weights,           \* forward's local `weights` at its last use
    per_graph_values,  \* forward's local accumulator at its last use
    raw_graph_repr,    \* CombinedGraphReadout.forward's local at its last use
    first_call,        \* history: the first forward call made on obj
    other_batch,       \* the caller's second batch, NoBatch when it has one only
    argv,              \* get_config: the command line
    config,            \* get_config: the returned configuration, <<>> before
    readonly,          \* get_config: the configuration's read-only flag
    config_err,        \* get_config / a later write: the exception raised
    last_write         \* history: the last assignment tried on the configuration

readout_vars == <<obj, ctor_call, ctor_err, node_embeddings, node_to_graph_id, num_graphs,
                  result, weights, per_graph_values, raw_graph_repr, first_call,
                  other_batch>>
config_vars == <<argv, config, readonly, config_err, last_write>>
vars == <<readout_vars, config_vars>>

(***************************************************************************)
(* Bounds of the model.                                                    *)
(***************************************************************************)
MaxNodes == 3
MaxGraphs == 2
MaxCallNodes == 1
MaxCallGraphs == 1
MaxArgs == 5

\* The feature rows a node may carry (node_dim = 2).
Rows == {<<1, 0>>, <<-1, 2>>}

(***************************************************************************)
(* Numbers.                                                                *)
(***************************************************************************)
\* exp(-k), k = 0, 1, ..., in units of 1/1000; smaller arguments underflow to 0.
ExpTable == <<1000, 368, 135, 50, 18, 7, 2, 1>>

\* sigmoid(k), k = 0, 1, ..., in the same units; larger arguments round to 1.
SigmoidTable == <<500, 731, 881, 953, 982, 993, 998, 999>>

\* The fixed-point representation of 1.0.
One == ExpTable[1]

\* torch.exp on the recentred scores of scatter_softmax, which are all <= 0.
exp(x) == IF -x < Len(ExpTable) THEN ExpTable[1 - x] ELSE 0

\* torch.sigmoid: sigmoid(-x) = 1 - sigmoid(x).
sigmoid(x) ==
    LET a == IF x >= 0 THEN x ELSE -x
        s == IF a < Len(SigmoidTable) THEN SigmoidTable[a + 1] ELSE One
    IN  IF x >= 0 THEN s ELSE One - s

relu(x) == IF x > 0 THEN x ELSE 0

\* A tensor held as the table of its entries: the identity, which has the
\* entries computed once rather than at every read.
Tensor(t) == IF t = t THEN t ELSE t

RECURSIVE SumSeq(_)
SumSeq(s) == IF s = <<>> THEN 0 ELSE s[1] + SumSeq(Tail(s))

Dot(u, v) == SumSeq([k \in 1..Len(u) |-> u[k] * v[k]])

VecAdd(u, v) == Tensor([k \in 1..Len(u) |-> u[k] + v[k]])

\* All orderings of the set S, as sequences.
RECURSIVE Orders(_)
Orders(S) ==
    IF S = {} THEN {<<>>}
    ELSE UNION {{<<x>> \o t : t \in Orders(S \ {x})} : x \in S}

(***************************************************************************)
(* Layers.                                                                 *)
(***************************************************************************)
\* The value a freshly constructed layer holds at weight[o][i] (bias: i = 0).
\* Any fixed initialisation will do; `seed` tells the layers apart.
Param(seed, o, i) == ((seed * 7 + o * o * 3 + i * 4 + o * i) % 5) - 2

\* nn.Linear(in_features, out_features, bias): the pair <<weight, bias>>, with
\* weight of shape [out_features, in_features] and a zero bias when bias=False.
nn_Linear(in_features, out_features, bias, seed) ==
    << [o \in 1..out_features |-> [i \in 1..in_features |-> Param(seed, o, i)]],
       [o \in 1..out_features |-> IF bias THEN Param(seed, o, 0) ELSE 0] >>

Weight(layer) == layer[1]
Bias(layer) == layer[2]

\* nn.Linear.forward on one row: x W^T + b
Linear_forward(layer, x) ==
    Tensor([o \in 1..Len(Weight(layer)) |-> Dot(Weight(layer)[o], x) + Bias(layer)[o]])

\* MLP.__init__: one Linear per hidden dimension, each followed by the
\* activation, then the final Linear.
MLP(input_dim, out_dim, hidden_layer_dims, seed) ==
    LET dims == <<input_dim>> \o hidden_layer_dims \o <<out_dim>>
    IN  [k \in 1..(Len(dims) - 1) |->
            nn_Linear(dims[k], dims[k + 1], TRUE, seed + k)]

\* MLP.forward on one row: nn.Sequential over the layers.
RECURSIVE MLP_forward(_, _)
MLP_forward(layers, x) ==
    LET out == Linear_forward(layers[1], x)
    IN  IF Len(layers) = 1 THEN out
        ELSE MLP_forward(Tail(layers), Tensor([k \in 1..Len(out) |-> relu(out[k])]))

(***************************************************************************)
(* Tensor operations of torch and torch_scatter.                           *)
(***************************************************************************)
Ok(v) == [err |-> "none", val |-> Tensor(v)]
Raise(e) == [err |-> e, val |-> <<>>]

\* Variant: an uninitialised buffer (torch.empty) that holds ones.
torch_ones(rows, cols) == [g \in 1..rows |-> [c \in 1..cols |-> 1]]

\* Variant: the accumulator of the previous call is used again when it has
\* the shape asked for.
torch_zeros_reused(rows, cols) ==
    IF Len(per_graph_values) = rows /\ rows > 0 /\ Len(per_graph_values[1]) = cols
    THEN per_graph_values
    ELSE [g \in 1..rows |-> [c \in 1..cols |-> 0]]

\* torch.zeros((rows, cols))
torch_zeros(rows, cols) == [g \in 1..rows |-> [c \in 1..cols |-> 0]]

\* torch_scatter.utils.broadcast(index, src, dim=0): a 1-d index is given a
\* trailing axis and expanded to the shape of src, which succeeds when the
\* lengths agree or the index has length 1.
broadcast(index, src) ==
    IF Len(index) = Len(src) THEN Ok(index)
    ELSE IF Len(index) = 1 THEN Ok([i \in 1..Len(src) |-> index[1]])
    ELSE Raise("RuntimeError")

\* The nodes (positions of index) of graph g.
Members(index, g) == {i \in 1..Len(index) : index[i] = g}

\* The sum of the rows src[i], i in the set S, of width cols.
RECURSIVE RowSum(_, _, _)
RowSum(src, S, cols) ==
    IF S = {} THEN [c \in 1..cols |-> 0]
    ELSE LET i == CHOOSE j \in S : TRUE
         IN  VecAdd(src[i], RowSum(src, S \ {i}, cols))

Max(S) == CHOOSE x \in S : \A y \in S : y <= x
Min(S) == CHOOSE x \in S : \A y \in S : x <= y

InRange(index, size) == \A i \in 1..Len(index) : 0 <= index[i] /\ index[i] < size

\* What an out-of-bounds write of the unchecked scatter kernel may do.
UBOutcomes == {"crash", "silent"}

\* The rows 1, ..., n in their own order.
Sequential(n) == [i \in 1..n |-> i]

\* Variant: out[index[i]] = src[i], the last row written stays.
RECURSIVE AssignRows(_, _, _, _)
AssignRows(out, index, src, order) ==
    IF order = <<>> THEN out
    ELSE AssignRows([out EXCEPT ![index[Head(order)] + 1] = src[Head(order)]],
                    index, src, Tail(order))

\* The sequential accumulation out[index[i]] += src[i], i taken in `order`.
RECURSIVE AddRows(_, _, _, _)
AddRows(out, index, src, order) ==
    IF order = <<>> THEN out
    ELSE LET i == Head(order)
         IN  AddRows([out EXCEPT ![index[i] + 1] = VecAdd(@, src[i])],
                     index, src, Tail(order))

\* Tensor.index_add_(0, index, source): one index per source row, each index a
\* row of self.
index_add_(self, index, source, order) ==
    IF Len(index) # Len(source) THEN Raise("RuntimeError")
    ELSE IF ~InRange(index, Len(self)) THEN Raise("IndexError")
    ELSE Ok(AddRows(self, index, source, order))

\* torch_scatter.scatter_sum(src, index, dim=0, dim_size=dim_size):
\* zeros(dim_size, cols).scatter_add_(0, broadcast(index), src).
scatter_sum(src, index, cols, dim_size) ==
    LET b == broadcast(index, src)
    IN  IF b.err # "none" THEN b
        ELSE IF ~InRange(b.val, dim_size) THEN Raise("RuntimeError")
        ELSE Ok(AddRows(torch_zeros(dim_size, cols), b.val, src,
                        Sequential(Len(src))))

\* torch_scatter.scatter_mean: scatter_sum, divided by the number of entries
\* of the index (as given, not broadcast) per group, at least 1.
scatter_mean(src, index, cols, dim_size) ==
    LET total == scatter_sum(src, index, cols, dim_size)
        count == [g \in 1..dim_size |->
                     LET n == Cardinality(Members(index, g - 1))
                     IN  IF n < 1 THEN 1 ELSE n]
    IN  IF total.err # "none" THEN total
        ELSE IF ~InRange(index, dim_size) THEN Raise("RuntimeError")
        ELSE Ok([g \in 1..dim_size |->
                    [c \in 1..cols |-> total.val[g][c] \div count[g]]])

\* torch_scatter.scatter_min / scatter_max: the compiled kernel reduces each
\* group and fills the groups nothing was written to with 0. It does not check
\* the index: a write outside the output is undefined behaviour.
scatter_minmax(src, index, cols, dim_size, reduce, ub) ==
    LET b == broadcast(index, src)
    IN  IF b.err # "none" THEN b
        ELSE IF ~InRange(b.val, dim_size) /\ ub = "crash" THEN Raise("Crash")
        ELSE Ok([g \in 1..dim_size |->
                    [c \in 1..cols |->
                        LET col == {src[i][c] : i \in Members(b.val, g - 1)}
                        IN  IF col = {} THEN 0
                            ELSE IF reduce = "max" THEN Max(col) ELSE Min(col)]])

\* Integer features as fixed-point numbers.
ToFixed(src) ==
    Tensor([i \in 1..Len(src) |-> [c \in 1..Len(src[i]) |-> src[i][c] * One]])

\* torch_scatter.scatter(src, index, dim=0, dim_size=dim_size, reduce=reduce)
scatter(src, index, cols, dim_size, reduce, ub) ==
    IF reduce = "sum" THEN scatter_sum(ToFixed(src), index, cols, dim_size)
    ELSE IF reduce = "mean" THEN scatter_mean(ToFixed(src), index, cols, dim_size)
    ELSE scatter_minmax(ToFixed(src), index, cols, dim_size, reduce, ub)

\* Variant: one softmax over all the nodes of the batch.
softmax_over_batch(src, index, heads, ub) ==
    LET all == 1..Len(src)
        top(h) == Max({src[j][h] : j \in all})
        e(i, h) == exp(src[i][h] - top(h))
    IN  Ok([i \in all |->
               [h \in 1..heads |->
                   (e(i, h) * One)
                       \div RowSum([j \in all |-> <<e(j, h)>>], all, 1)[1]]])

\* torch_scatter.scatter_softmax(src, index, dim=0). No dim_size is passed: the
\* groups are 0..max(index). scatter_max (unchecked) finds each group's maximum,
\* gather (checked) reads it back per entry, the recentred scores are
\* exponentiated, summed per group and divided by their group's sum.
scatter_softmax(src, index, heads, ub) ==
    LET b == broadcast(index, src)
    IN  IF b.err # "none" THEN b
        ELSE IF \E i \in 1..Len(b.val) : b.val[i] < 0
             THEN (IF ub = "crash" THEN Raise("Crash") ELSE Raise("RuntimeError"))
        ELSE LET idx == b.val
                 groups == 0..Max({idx[i] : i \in 1..Len(idx)} \cup {0})
                 max_value_per_index ==
                     Tensor([g \in groups |->
                         [h \in 1..heads |->
                             LET col == {src[j][h] : j \in Members(idx, g)}
                             IN  IF col = {} THEN 0 ELSE Max(col)]])
                 recentered_scores_exp ==
                     Tensor([i \in 1..Len(src) |->
                         [h \in 1..heads |->
                             exp(src[i][h] - max_value_per_index[idx[i]][h])]])
                 sum_per_index ==
                     Tensor([g \in groups |->
                         RowSum(recentered_scores_exp, Members(idx, g), heads)])
             IN  Ok([i \in 1..Len(src) |->
                        [h \in 1..heads |->
                            (recentered_scores_exp[i][h] * One)
                                \div sum_per_index[idx[i]][h]]])

(***************************************************************************)
(* The readout classes.                                                    *)
(***************************************************************************)
PoolingTypes == {"min", "max", "sum", "mean"}
WeightingTypes == {"weighted_sum", "weighted_mean"}

\* Attribute lookup on an instance.
getattr(self, name) ==
    IF name \in DOMAIN self THEN Ok(self[name]) ELSE Raise("AttributeError")

\* What a forward call hands back: the exception or the returned tensor, and
\* the locals it had computed by then.
Returned(out, w, acc, raw) ==
    [err |-> "none", val |-> out, weights |-> w, per_graph_values |-> acc,
     raw_graph_repr |-> raw]
Raised(e, w) ==
    [err |-> e, val |-> <<>>, weights |-> w, per_graph_values |-> <<>>,
     raw_graph_repr |-> <<>>]

\* A bias-free combination layer applied to every row.
Project(layer, rows) ==
    Tensor([g \in 1..Len(rows) |-> Linear_forward(layer, rows[g])])

\* UnweightedGraphReadout.__init__
UnweightedGraphReadout(node_dim, out_dim, pooling_type, seed) ==
    LET self == [cls |-> "UnweightedGraphReadout", _node_dim |-> node_dim,
                 _out_dim |-> out_dim, _pooling_type |-> pooling_type]
    IN  IF pooling_type \notin PoolingTypes
        THEN \* the message of the ValueError reads self.pooling_type
             LET shown == getattr(self, "pooling_type")
             IN  IF shown.err # "none" THEN Raise(shown.err) ELSE Raise("ValueError")
        ELSE Ok(self @@ [_combination_layer |->
                            nn_Linear(node_dim, out_dim, FALSE, seed)])

\* UnweightedGraphReadout.forward
UnweightedGraphReadout_forward(self, embeddings, index, graphs, ub) ==
    LET pooled == scatter(embeddings, index, self._node_dim, graphs,
                          self._pooling_type, ub)
    IN  IF pooled.err # "none" THEN Raised(pooled.err, <<>>)
        ELSE Returned(Project(self._combination_layer, pooled.val),
                      <<>>, pooled.val, <<>>)

\* Variant: the constructor takes any weighting_type.
MultiHeadWeightedGraphReadout_unchecked(node_dim, out_dim, num_heads, head_dim, weighting_type, num_mlp_layers, seed) ==
    LET hidden == [k \in 1..num_mlp_layers |-> head_dim * num_heads]
    IN  Ok([cls |-> "MultiHeadWeightedGraphReadout", _node_dim |-> node_dim,
            _out_dim |-> out_dim, _num_heads |-> num_heads, _head_dim |-> head_dim,
            _weighting_type |-> weighting_type,
            _scoring_module |-> MLP(node_dim, num_heads, hidden, seed),
            _transformation_mlp |->
                MLP(node_dim, num_heads * head_dim, hidden, seed + 2),
            _combination_layer |->
                nn_Linear(num_heads * head_dim, out_dim, FALSE, seed + 1)])

\* MultiHeadWeightedGraphReadout.__init__ (num_mlp_layers hidden layers of width
\* head_dim * num_heads in both MLPs).
MultiHeadWeightedGraphReadout(node_dim, out_dim, num_heads, head_dim, weighting_type, num_mlp_layers, seed) ==
    LET self == [cls |-> "MultiHeadWeightedGraphReadout", _node_dim |-> node_dim,
                 _out_dim |-> out_dim, _num_heads |-> num_heads,
                 _head_dim |-> head_dim]
        hidden == [k \in 1..num_mlp_layers |-> head_dim * num_heads]
    IN  IF weighting_type \notin WeightingTypes THEN Raise("ValueError")
        ELSE Ok(self @@
                [_weighting_type |-> weighting_type,
                 _scoring_module |-> MLP(node_dim, num_heads, hidden, seed),
                 _transformation_mlp |->
                     MLP(node_dim, num_heads * head_dim, hidden, seed + 2),
                 _combination_layer |->
                     nn_Linear(num_heads * head_dim, out_dim, FALSE, seed + 1)])

\* Step 1 of MultiHeadWeightedGraphReadout.forward: the scores, normalised
\* according to the weighting type.
MultiHead_weights(self, embeddings, index, ub) ==
    LET scores == Tensor([i \in 1..Len(embeddings) |->
                      MLP_forward(self._scoring_module, embeddings[i])])
    IN  IF self._weighting_type = "weighted_sum"
        THEN Ok([i \in 1..Len(scores) |->
                    [h \in 1..self._num_heads |-> sigmoid(scores[i][h])]])
        ELSE IF self._weighting_type = "weighted_mean"
        THEN scatter_softmax(scores, index, self._num_heads, ub)
        ELSE Raise("ValueError")

\* Variant: the values viewed as (head_dim, num_heads), so that column c is
\* weighted by head ((c - 1) % num_heads) + 1.
MultiHead_weighted_values_transposed(self, embeddings, w) ==
    [i \in 1..Len(embeddings) |->
        [c \in 1..(self._num_heads * self._head_dim) |->
            w[i][((c - 1) % self._num_heads) + 1]
                * MLP_forward(self._transformation_mlp, embeddings[i])[c]]]

\* Step 2 and the product of step 3: values.view(-1, num_heads, head_dim),
\* multiplied by weights.unsqueeze(-1) and viewed back as rows of width
\* num_heads * head_dim.
MultiHead_weighted_values(self, embeddings, w) ==
    LET H == self._num_heads
        D == self._head_dim
        flat == Tensor([i \in 1..Len(embeddings) |->
                    MLP_forward(self._transformation_mlp, embeddings[i])])
        values == Tensor([i \in 1..Len(flat) |->
                      [h \in 1..H |-> [d \in 1..D |-> flat[i][(h - 1) * D + d]]]])
        weighted == Tensor([i \in 1..Len(values) |->
                        [h \in 1..H |-> [d \in 1..D |-> w[i][h] * values[i][h][d]]]])
    IN  Tensor([i \in 1..Len(weighted) |->
            [c \in 1..(H * D) |->
                weighted[i][((c - 1) \div D) + 1][((c - 1) % D) + 1]]])

\* MultiHeadWeightedGraphReadout.forward up to the accumulation: the weights,
\* or the exception of their normalisation, and the weighted values.
MultiHead_per_node(self, embeddings, index, ub) ==
    LET w == MultiHead_weights(self, embeddings, index, ub)
    IN  [weights |-> w,
         weighted_values |->
             IF w.err # "none" THEN <<>>
             ELSE MultiHead_weighted_values(self, embeddings, w.val)]

\* MultiHeadWeightedGraphReadout.forward from the accumulation on: the rows
\* are added into a fresh accumulator in `order`, then projected.
MultiHead_per_graph(self, per_node, index, graphs, order) ==
    LET w == per_node.weights
        acc == index_add_(torch_zeros(graphs, self._num_heads * self._head_dim),
                          index, per_node.weighted_values, order)
    IN  IF w.err # "none" THEN Raised(w.err, <<>>)
        ELSE IF acc.err # "none" THEN Raised(acc.err, w.val)
        ELSE Returned(Project(self._combination_layer, acc.val),
                      w.val, acc.val, <<>>)

\* MultiHeadWeightedGraphReadout.forward
MultiHeadWeightedGraphReadout_forward(self, embeddings, index, graphs, ub, order) ==
    MultiHead_per_graph(self, MultiHead_per_node(self, embeddings, index, ub),
                        index, graphs, order)

\* CombinedGraphReadout.__init__
CombinedGraphReadout(node_dim, out_dim, num_heads, head_dim, seed) ==
    LET mean_pooler == MultiHeadWeightedGraphReadout(
                           node_dim, out_dim, num_heads, head_dim,
                           "weighted_mean", 1, seed + 1)
        sum_pooler == MultiHeadWeightedGraphReadout(
                          node_dim, out_dim, num_heads, head_dim,
                          "weighted_sum", 1, seed + 2)
        max_pooler == UnweightedGraphReadout(node_dim, out_dim, "max", seed + 3)
    IN  IF mean_pooler.err # "none" THEN mean_pooler
        ELSE IF sum_pooler.err # "none" THEN sum_pooler
        ELSE IF max_pooler.err # "none" THEN max_pooler
        ELSE Ok([cls |-> "CombinedGraphReadout", _node_dim |-> node_dim,
                 _out_dim |-> out_dim, _num_heads |-> num_heads,
                 _head_dim |-> head_dim,
                 _weighted_mean_pooler |-> mean_pooler.val,
                 _weighted_sum_pooler |-> sum_pooler.val,
                 _max_pooler |-> max_pooler.val,
                 _combination_layer |-> nn_Linear(3 * out_dim, out_dim, FALSE, seed)])

\* Variant: the concatenation in the order sum, mean, max.
torch_cat_sum_first(a, b, c) == [g \in 1..Len(a) |-> b[g] \o a[g] \o c[g]]

\* torch.cat((a, b, c), dim=1)
torch_cat(a, b, c) == Tensor([g \in 1..Len(a) |-> a[g] \o b[g] \o c[g]])

\* The part of CombinedGraphReadout.forward that no accumulation order
\* touches: the per-node work of the two weighted poolers and the max pooler.
Combined_per_node(self, embeddings, index, graphs, ub) ==
    [mean |-> MultiHead_per_node(self._weighted_mean_pooler, embeddings, index, ub),
     sum |-> MultiHead_per_node(self._weighted_sum_pooler, embeddings, index, ub),
     max |-> UnweightedGraphReadout_forward(self._max_pooler, embeddings, index,
                                            graphs, ub)]

\* CombinedGraphReadout.forward, given the per-node work.
Combined_per_graph(self, per_node, index, graphs, order) ==
    LET mean_graph_repr == MultiHead_per_graph(self._weighted_mean_pooler,
                                               per_node.mean, index, graphs, order)
        sum_graph_repr == MultiHead_per_graph(self._weighted_sum_pooler,
                                              per_node.sum, index, graphs, order)
        max_graph_repr == per_node.max
        raw == torch_cat(mean_graph_repr.val, sum_graph_repr.val, max_graph_repr.val)
        activated == Tensor([g \in 1..Len(raw) |->
                         [c \in 1..Len(raw[g]) |-> relu(raw[g][c])]])
    IN  IF mean_graph_repr.err # "none" THEN Raised(mean_graph_repr.err, <<>>)
        ELSE IF sum_graph_repr.err # "none" THEN Raised(sum_graph_repr.err, <<>>)
        ELSE IF max_graph_repr.err # "none" THEN Raised(max_graph_repr.err, <<>>)
        ELSE Returned(Project(self._combination_layer, activated),
                      <<>>, sum_graph_repr.per_graph_values, raw)

\* CombinedGraphReadout.forward
CombinedGraphReadout_forward(self, embeddings, index, graphs, ub, order) ==
    Combined_per_graph(self, Combined_per_node(self, embeddings, index, graphs, ub),
                       index, graphs, order)

\* nn.Module.__call__: the forward of the instance's class.
forward(self, embeddings, index, graphs, ub, order) ==
    IF self.cls = "UnweightedGraphReadout"
    THEN UnweightedGraphReadout_forward(self, embeddings, index, graphs, ub)
    ELSE IF self.cls = "MultiHeadWeightedGraphReadout"
    THEN MultiHeadWeightedGraphReadout_forward(self, embeddings, index, graphs,
                                               ub, order)
    ELSE CombinedGraphReadout_forward(self, embeddings, index, graphs, ub, order)

(***************************************************************************)
(* The callers of the readout: construction, then forward calls.           *)
(***************************************************************************)
NoObj == [cls |-> "none"]
NoCall == [cls |-> "none", type |-> "none"]
NoResult == [err |-> "not called", val |-> <<>>]
NoFirst == [called |-> FALSE, batch |-> <<>>, result |-> NoResult,
            interleaved |-> FALSE]
NoBatch == <<>>

NodeDim == Len(CHOOSE r \in Rows : TRUE)

\* The constructor arguments tried: every recognised type and one that is not.
PoolingArgs == PoolingTypes \cup {"median"}
WeightingArgs == WeightingTypes \cup {"weighted_max"}
HyperParams == {[out_dim |-> 2, num_heads |-> 2, head_dim |-> 2]}

\* Batches whose index agrees with the features and names graphs of the batch.
ValidBatches(max_nodes, max_graphs) ==
    UNION {[emb : [1..v -> Rows], ids : [1..v -> 0..(g - 1)], graphs : {g}] :
              v \in 0..max_nodes, g \in 1..max_graphs}

\* Batches with any index: any length, graph ids from -1 to num_graphs.
AnyBatches(max_nodes, max_graphs) ==
    UNION {[emb : [1..v -> Rows], ids : [1..u -> -1..g], graphs : {g}] :
              v \in 0..max_nodes, u \in 0..max_nodes, g \in 1..max_graphs}

Batch == [emb |-> node_embeddings, ids |-> node_to_graph_id, graphs |-> num_graphs]

Idle(batches, others) ==
    /\ obj = NoObj
    /\ ctor_call = NoCall
    /\ ctor_err = "none"
    /\ \E b \in batches :
          /\ node_embeddings = b.emb
          /\ node_to_graph_id = b.ids
          /\ num_graphs = b.graphs
    /\ result = NoResult
    /\ weights = <<>>
    /\ per_graph_values = <<>>
    /\ raw_graph_repr = <<>>
    /\ first_call = NoFirst
    /\ other_batch \in others

ConfigIdle ==
    /\ argv = <<>>
    /\ config = <<>>
    /\ readonly = FALSE
    /\ config_err = "not called"
    /\ last_write = <<>>

\* A constructor call that ended as r: the caller holds the instance, if any.
Constructed(cls, type, r) ==
    /\ ctor_call' = [cls |-> cls, type |-> type]
    /\ obj' = IF r.err = "none" THEN r.val ELSE NoObj
    /\ ctor_err' = r.err
    /\ UNCHANGED <<node_embeddings, node_to_graph_id, num_graphs, result, weights,
                   per_graph_values, raw_graph_repr, first_call, other_batch,
                   config_vars>>

ConstructUnweighted ==
    /\ ctor_call = NoCall
    /\ \E pooling_type \in PoolingArgs, hp \in HyperParams :
          Constructed("UnweightedGraphReadout", pooling_type,
                      UnweightedGraphReadout(NodeDim, hp.out_dim, pooling_type, 3))

ConstructMultiHead ==
    /\ ctor_call = NoCall
    /\ \E weighting_type \in WeightingArgs, hp \in HyperParams :
          Constructed("MultiHeadWeightedGraphReadout", weighting_type,
                      MultiHeadWeightedGraphReadout(NodeDim, hp.out_dim, hp.num_heads,
                                                    hp.head_dim, weighting_type, 1, 3))

ConstructCombined ==
    /\ ctor_call = NoCall
    /\ \E hp \in HyperParams :
          Constructed("CombinedGraphReadout", "combined",
                      CombinedGraphReadout(NodeDim, hp.out_dim, hp.num_heads,
                                           hp.head_dim, 0))

\* A forward call that ended as r: the caller holds what it returned or raised.
Called(r) ==
    /\ result' = [err |-> r.err, val |-> r.val]
    /\ weights' = r.weights
    /\ per_graph_values' = r.per_graph_values
    /\ raw_graph_repr' = r.raw_graph_repr
    /\ first_call' = IF first_call.called
                     THEN [first_call EXCEPT
                              !.interleaved = @ \/ first_call.batch # Batch]
                     ELSE [called |-> TRUE, batch |-> Batch, result |-> result',
                           interleaved |-> FALSE]
    /\ UNCHANGED <<obj, ctor_call, ctor_err, node_embeddings, node_to_graph_id,
                   num_graphs, other_batch, config_vars>>

\* The orders in which index_add_ may add the rows of a batch.
AccumulationOrders(embeddings) == Orders(1..Len(embeddings))

\* What a forward call may return or raise, over the accumulation orders.
MultiHead_outcomes(self, embeddings, index, graphs, ub) ==
    LET per_node == MultiHead_per_node(self, embeddings, index, ub)
    IN  {MultiHead_per_graph(self, per_node, index, graphs, order) :
            order \in AccumulationOrders(embeddings)}

Combined_outcomes(self, embeddings, index, graphs, ub) ==
    LET per_node == Combined_per_node(self, embeddings, index, graphs, ub)
    IN  {Combined_per_graph(self, per_node, index, graphs, order) :
            order \in AccumulationOrders(embeddings)}

ForwardUnweighted ==
    /\ obj.cls = "UnweightedGraphReadout"
    /\ \E ub \in UBOutcomes :
          Called(UnweightedGraphReadout_forward(obj, node_embeddings,
                     node_to_graph_id, num_graphs, ub))

ForwardMultiHead ==
    /\ obj.cls = "MultiHeadWeightedGraphReadout"
    /\ \E ub \in UBOutcomes :
          \E r \in MultiHead_outcomes(obj, node_embeddings, node_to_graph_id,
                                      num_graphs, ub) : Called(r)

ForwardCombined ==
    /\ obj.cls = "CombinedGraphReadout"
    /\ \E ub \in UBOutcomes :
          \E r \in Combined_outcomes(obj, node_embeddings, node_to_graph_id,
                                     num_graphs, ub) : Called(r)

Forward == ForwardUnweighted \/ ForwardMultiHead \/ ForwardCombined

\* The caller turns to its other batch; the previous call's output is dropped.
NextBatch ==
    /\ other_batch # NoBatch
    /\ other_batch # Batch
    /\ node_embeddings' = other_batch.emb
    /\ node_to_graph_id' = other_batch.ids
    /\ num_graphs' = other_batch.graphs
    /\ other_batch' = Batch
    /\ result' = NoResult
    /\ weights' = <<>>
    /\ per_graph_values' = <<>>
    /\ raw_graph_repr' = <<>>
    /\ UNCHANGED <<obj, ctor_call, ctor_err, first_call, config_vars>>

Init == Idle(ValidBatches(MaxNodes, MaxGraphs), {NoBatch}) /\ ConfigIdle

Next ==
    \/ ConstructUnweighted
    \/ ConstructMultiHead
    \/ ConstructCombined
    \/ ForwardUnweighted
    \/ ForwardMultiHead
    \/ ForwardCombined

\* Construction and forward calls on one valid batch.
Spec == Init /\ [][Next]_vars

InitCalls ==
    /\ Idle(ValidBatches(MaxCallNodes, MaxCallGraphs),
            ValidBatches(MaxCallNodes, MaxCallGraphs))
    /\ ConfigIdle

NextCalls == Next \/ NextBatch

\* Forward calls on two valid batches in turn.
SpecCalls == InitCalls /\ [][NextCalls]_vars

InitInvalid == Idle(AnyBatches(MaxNodes, MaxGraphs), {NoBatch}) /\ ConfigIdle

\* Construction and forward calls on one batch with an arbitrary index.
SpecInvalid == InitInvalid /\ [][Next]_vars

(***************************************************************************)
(* get_config (config_utils.py).                                           *)
(*                                                                         *)
(* A command line is a sequence of tokens: the flag, file paths and        *)
(* KEY=VALUE overrides. A configuration is a function from keys to values. *)
(***************************************************************************)
Flag == <<"--config">>
Path(f) == <<"path", f>>
Override(k, v) == <<"set", k, v>>

IsPath(tok) == tok[1] = "path"
IsOverride(tok) == tok[1] = "set"

\* The YAML files that exist, as KEY: VALUE lines.
FileNames == {"a.yaml", "b.yaml"}
FileLines(f) ==
    IF f = "a.yaml" THEN <<<<"x", 1>>, <<"y", 1>>>> ELSE <<<<"x", 2>>>>

\* The defaults of the fields of config_cls.
SchemaLines == <<<<"x", 0>>, <<"y", 0>>, <<"z", 0>>>>

Tokens == {Flag} \cup {Path(f) : f \in FileNames}
              \cup {Override("x", 3), Override("y", 4)}

\* A configuration with key k set to v.
Update(conf, k, v) ==
    [j \in DOMAIN conf \cup {k} |-> IF j = k THEN v ELSE conf[j]]

\* The configuration a list of KEY: VALUE lines gives, later lines last.
RECURSIVE FromLines(_, _)
FromLines(conf, lines) ==
    IF lines = <<>> THEN conf
    ELSE FromLines(Update(conf, Head(lines)[1], Head(lines)[2]), Tail(lines))

\* ArgumentParser.parse_known_args with the one option --config (append, one
\* argument): the pair <<paths given to --config, tokens left over>>, or the
\* parser's exit when --config lacks its argument.
RECURSIVE parse_known_args(_, _, _)
parse_known_args(args, paths, extras) ==
    IF args = <<>> THEN Ok(<<paths, extras>>)
    ELSE IF Head(args) = Flag
    THEN (IF Len(args) < 2 \/ args[2] = Flag THEN Raise("SystemExit")
          ELSE parse_known_args(Tail(Tail(args)), Append(paths, args[2]), extras))
    ELSE parse_known_args(Tail(args), paths, Append(extras, Head(args)))

\* OmegaConf.load of every path, in order; a token that names no file fails.
RECURSIVE OmegaConf_load_all(_)
OmegaConf_load_all(paths) ==
    IF paths = <<>> THEN Ok(<<>>)
    ELSE IF ~(IsPath(Head(paths)) /\ Head(paths)[2] \in FileNames)
    THEN Raise("FileNotFoundError")
    ELSE LET rest == OmegaConf_load_all(Tail(paths))
         IN  IF rest.err # "none" THEN rest
             ELSE Ok(<<FromLines(<<>>, FileLines(Head(paths)[2]))>> \o rest.val)

\* OmegaConf.from_cli: every token sets a key; a token without "=" is itself
\* the key, with no value.
RECURSIVE OmegaConf_from_cli(_, _)
OmegaConf_from_cli(conf, extras) ==
    IF extras = <<>> THEN conf
    ELSE LET tok == Head(extras)
         IN  OmegaConf_from_cli(
                 IF IsOverride(tok) THEN Update(conf, tok[2], tok[3])
                 ELSE Update(conf, tok[2], "None"),
                 Tail(extras))

\* Variant: the command-line overrides merged before the files.
MergeOrder_cli_first(schema, conf_yamls, conf_cli) == <<schema, conf_cli>> \o conf_yamls

\* The order in which get_config hands the configurations to OmegaConf.merge.
MergeOrder(schema, conf_yamls, conf_cli) == <<schema>> \o conf_yamls \o <<conf_cli>>

\* OmegaConf.merge onto a structured schema: each configuration in turn
\* overrides the keys it sets; a key the schema lacks is an error.
RECURSIVE OmegaConf_merge(_, _)
OmegaConf_merge(target, sources) ==
    IF sources = <<>> THEN Ok(target)
    ELSE IF ~(DOMAIN Head(sources) \subseteq DOMAIN target)
    THEN Raise("ConfigKeyError")
    ELSE OmegaConf_merge(
             [k \in DOMAIN target |->
                 IF k \in DOMAIN Head(sources) THEN Head(sources)[k] ELSE target[k]],
             Tail(sources))

\* get_config(argv, config_cls): the merged configuration and its read-only
\* flag, or the exception.
get_config(args) ==
    LET parsed == parse_known_args(args, <<>>, <<>>)
        conf_yamls == OmegaConf_load_all(parsed.val[1])
        conf_cli == OmegaConf_from_cli(<<>>, parsed.val[2])
        schema == FromLines(<<>>, SchemaLines)
        order == MergeOrder(schema, conf_yamls.val, conf_cli)
        merged == OmegaConf_merge(Head(order), Tail(order))
    IN  IF parsed.err # "none" THEN parsed
        ELSE IF conf_yamls.err # "none" THEN conf_yamls
        ELSE IF merged.err # "none" THEN merged
        ELSE Ok(<<merged.val, TRUE>>)

InitConfig ==
    /\ Idle({[emb |-> <<>>, ids |-> <<>>, graphs |-> 1]}, {NoBatch})
    /\ argv \in UNION {[1..n -> Tokens] : n \in 0..MaxArgs}
    /\ config = <<>>
    /\ readonly = FALSE
    /\ config_err = "not called"
    /\ last_write = <<>>

GetConfig ==
    /\ config_err = "not called"
    /\ LET r == get_config(argv)
       IN  /\ config_err' = r.err
           /\ config' = IF r.err = "none" THEN r.val[1] ELSE <<>>
           /\ readonly' = IF r.err = "none" THEN r.val[2] ELSE FALSE
    /\ UNCHANGED <<argv, last_write, readout_vars>>

\* A caller assigns to a key of the returned configuration: a read-only
\* configuration raises and stays as it is.
WriteConfig ==
    /\ config_err \in {"none", "ReadonlyConfigError"}
    /\ \E k \in DOMAIN config, v \in {7, 8} :
          /\ last_write' = <<k, v>>
          /\ config' = IF readonly THEN config ELSE Update(config, k, v)
          /\ config_err' = IF readonly THEN "ReadonlyConfigError" ELSE "none"
    /\ UNCHANGED <<argv, readonly, readout_vars>>

NextConfig == GetConfig \/ WriteConfig

\* get_config on one command line, then writes to what it returned.
SpecConfig == InitConfig /\ [][NextConfig]_vars

(***************************************************************************)
(* Properties.                                                             *)
(***************************************************************************)
V == Len(node_embeddings)
Graphs == 0..(num_graphs - 1)
Returns == result.err = "none"
IsUnweighted == obj.cls = "UnweightedGraphReadout"
IsMultiHead == obj.cls = "MultiHeadWeightedGraphReadout"
IsCombined == obj.cls = "CombinedGraphReadout"
Abs(x) == IF x < 0 THEN -x ELSE x

\* C1: constructing UnweightedGraphReadout with an unrecognised pooling_type
\* raises ValueError and leaves no instance.
C1_UnknownPoolingRaisesValueError ==
    (ctor_call.cls = "UnweightedGraphReadout" /\ ctor_call.type \notin PoolingTypes)
        => (ctor_err = "ValueError" /\ obj = NoObj)

\* C2: constructing MultiHeadWeightedGraphReadout with an unrecognised
\* weighting_type raises ValueError and leaves no instance; an instance that
\* exists holds a recognised weighting type and its forward never raises
\* ValueError.
C2_WeightingTypeCheckedAtConstruction ==
    /\ (ctor_call.cls = "MultiHeadWeightedGraphReadout"
            /\ ctor_call.type \notin WeightingTypes)
        => (ctor_err = "ValueError" /\ obj = NoObj)
    /\ IsMultiHead
        => /\ ctor_err = "none"
           /\ obj._weighting_type \in WeightingTypes
           /\ result.err # "ValueError"

\* A forward call of a constructed multi-head readout has returned.
C2_Witness == IsMultiHead /\ Returns /\ V > 0

\* The nodes of graph g, in node order, as a batch of one graph.
RECURSIVE Restrict(_, _, _)
Restrict(seq, index, g) ==
    IF seq = <<>> THEN <<>>
    ELSE (IF Head(index) = g THEN <<Head(seq)>> ELSE <<>>)
             \o Restrict(Tail(seq), Tail(index), g)

\* The position among the nodes of its graph of node i.
RankInGraph(index, i) == Cardinality({j \in 1..i : index[j] = index[i]})

\* C3: with weighting_type "weighted_mean", every weight lies in [0, 1]; for
\* every graph with a node and every head the weights of the graph's nodes sum
\* to 1 up to the rounding of one division per node; and a node's weights are
\* those the softmax gives on its own graph's nodes alone.
C3_WeightedMeanNormalisedPerGraph ==
    (IsMultiHead /\ obj._weighting_type = "weighted_mean" /\ Returns) =>
        /\ \A i \in 1..V : \A h \in 1..obj._num_heads :
              0 <= weights[i][h] /\ weights[i][h] <= One
        /\ \A g \in Graphs : \A h \in 1..obj._num_heads :
              LET nodes == Members(node_to_graph_id, g)
                  total == RowSum([i \in 1..V |-> <<weights[i][h]>>], nodes, 1)[1]
              IN  nodes # {} => Abs(total - One) <= Cardinality(nodes)
        /\ LET alone == Tensor([g \in Graphs |->
                            MultiHead_weights(
                                obj, Restrict(node_embeddings, node_to_graph_id, g),
                                [k \in 1..Cardinality(Members(node_to_graph_id, g))
                                    |-> 0],
                                "crash")])
           IN  \A i \in 1..V :
                   weights[i] = alone[node_to_graph_id[i]]
                                    .val[RankInGraph(node_to_graph_id, i)]

\* Weighted-mean weights of two graphs whose nodes interleave, not all equal.
C3_Witness ==
    /\ IsMultiHead /\ obj._weighting_type = "weighted_mean" /\ Returns
    /\ node_to_graph_id = <<0, 1, 0>>
    /\ \E h \in 1..obj._num_heads :
          weights[1][h] # weights[3][h] /\ weights[1][h] > 0 /\ weights[3][h] > 0

\* The batch with its nodes reordered: row k is the old row p[k].
Permuted(seq, p) == Tensor([k \in 1..Len(seq) |-> seq[p[k]]])

\* C4: reordering the nodes, features and graph ids alike, leaves the output
\* of every variant unchanged.
C4_PermutationInvariant ==
    Returns =>
        \A p \in Orders(1..V) :
            LET again == forward(obj, Permuted(node_embeddings, p),
                                 Permuted(node_to_graph_id, p), num_graphs,
                                 "crash", Sequential(V))
            IN  again.err = "none" /\ again.val = result.val

\* An output for a batch of two graphs that some reordering really changes.
C4_Witness ==
    /\ Returns /\ V >= 3
    /\ \A g \in Graphs : Members(node_to_graph_id, g) # {}
    /\ \E i, j \in 1..V : node_embeddings[i] # node_embeddings[j]
    /\ \E g \in 1..num_graphs : \E c \in 1..Len(result.val[g]) : result.val[g][c] # 0

\* C5: a node_to_graph_id with an entry outside [0, num_graphs), or of another
\* length than node_embeddings has rows, makes forward fail.
C5_InvalidIndexFails ==
    (result # NoResult
        /\ (~InRange(node_to_graph_id, num_graphs) \/ Len(node_to_graph_id) # V))
        => result.err \in {"RuntimeError", "IndexError", "Crash"}

\* C6: the output has num_graphs rows, and the row of a graph without nodes
\* is all zero for unweighted sum and mean pooling and for both multi-head
\* variants.
C6_EmptyGraphRowIsZero ==
    (Returns /\ (IsMultiHead \/ (IsUnweighted /\ obj._pooling_type \in {"sum", "mean"})))
        => /\ Len(result.val) = num_graphs
           /\ \A g \in Graphs :
                 Members(node_to_graph_id, g) = {}
                     => result.val[g + 1] = [c \in 1..obj._out_dim |-> 0]

\* A graph without nodes beside a graph whose row is not zero.
C6_Witness ==
    /\ Returns /\ IsMultiHead /\ num_graphs = 2
    /\ Members(node_to_graph_id, 1) = {}
    /\ result.val[2] = <<0, 0>>
    /\ result.val[1] # <<0, 0>>

\* C8: a forward call changes neither its inputs nor the instance, and a call
\* with the inputs of the first call returns what the first call returned,
\* whatever calls on other batches came in between.
C8_ForwardKeepsNoState ==
    [][Forward =>
          /\ node_embeddings' = node_embeddings
          /\ node_to_graph_id' = node_to_graph_id
          /\ num_graphs' = num_graphs
          /\ obj' = obj
          /\ (first_call.called /\ first_call.batch = Batch)
                 => result' = first_call.result]_vars

\* The batch of the first call, called again after a call on another batch.
C8_Witness ==
    /\ first_call.called /\ first_call.interleaved
    /\ first_call.batch = Batch /\ V > 0
    /\ Returns /\ result = first_call.result
    /\ \E g \in 1..num_graphs : \E c \in 1..Len(result.val[g]) : result.val[g][c] # 0

\* C9: row g of the multi-head accumulator is the sum, over exactly the nodes
\* of graph g, of weight times value, head by head, in whatever order the
\* nodes were accumulated.
C9_AccumulatorIsSegmentedSum ==
    (IsMultiHead /\ Returns) =>
        /\ Len(per_graph_values) = num_graphs
        /\ LET values == Tensor([i \in 1..V |->
                             MLP_forward(obj._transformation_mlp, node_embeddings[i])])
           IN  \A g \in Graphs : \A h \in 1..obj._num_heads :
                   \A d \in 1..obj._head_dim :
                       LET c == (h - 1) * obj._head_dim + d
                       IN  per_graph_values[g + 1][c]
                               = RowSum([i \in 1..V |-> <<weights[i][h] * values[i][c]>>],
                                        Members(node_to_graph_id, g), 1)[1]

\* Two graphs with interleaved nodes and different accumulator rows.
C9_Witness ==
    /\ IsMultiHead /\ Returns
    /\ node_to_graph_id = <<1, 0, 1>>
    /\ node_embeddings[1] # node_embeddings[3]
    /\ per_graph_values[1] # per_graph_values[2]
    /\ \E c \in 1..Len(per_graph_values[2]) :
          per_graph_values[1][c] # 0 /\ per_graph_values[2][c] # 0

\* C10: the combined readout holds a weighted_mean pooler, a weighted_sum
\* pooler and a max pooler of its own dimensions; the concatenation has width
\* 3 * out_dim with the outputs of the three, in this order, as its thirds;
\* the output is the bias-free projection of its ReLU.
C10_CombinedConcatenatesMeanSumMax ==
    (IsCombined /\ Returns) =>
        LET od == obj._out_dim
            mean_pooler == obj._weighted_mean_pooler
            sum_pooler == obj._weighted_sum_pooler
            max_pooler == obj._max_pooler
            part == Tensor([q \in {"mean", "sum", "max"} |->
                        forward(IF q = "mean" THEN mean_pooler
                                ELSE IF q = "sum" THEN sum_pooler ELSE max_pooler,
                                node_embeddings, node_to_graph_id, num_graphs,
                                "crash", Sequential(V)).val])
        IN  /\ mean_pooler.cls = "MultiHeadWeightedGraphReadout"
            /\ mean_pooler._weighting_type = "weighted_mean"
            /\ sum_pooler.cls = "MultiHeadWeightedGraphReadout"
            /\ sum_pooler._weighting_type = "weighted_sum"
            /\ max_pooler.cls = "UnweightedGraphReadout"
            /\ max_pooler._pooling_type = "max"
            /\ \A q \in {mean_pooler, sum_pooler, max_pooler} :
                  q._node_dim = obj._node_dim /\ q._out_dim = od
            /\ \A q \in {mean_pooler, sum_pooler} :
                  q._num_heads = obj._num_heads /\ q._head_dim = obj._head_dim
            /\ Len(raw_graph_repr) = num_graphs
            /\ \A g \in 1..num_graphs :
                  /\ Len(raw_graph_repr[g]) = 3 * od
                  /\ \A c \in 1..od :
                        /\ raw_graph_repr[g][c] = part["mean"][g][c]
                        /\ raw_graph_repr[g][od + c] = part["sum"][g][c]
                        /\ raw_graph_repr[g][2 * od + c] = part["max"][g][c]
            /\ Bias(obj._combination_layer) = [c \in 1..od |-> 0]
            /\ Len(result.val) = num_graphs
            /\ \A g \in 1..num_graphs :
                  /\ Len(result.val[g]) = od
                  /\ \A c \in 1..od :
                        result.val[g][c]
                            = Dot(Weight(obj._combination_layer)[c],
                                  [k \in 1..(3 * od) |-> relu(raw_graph_repr[g][k])])

\* A concatenation with three different thirds and an entry the ReLU clips.
C10_Witness ==
    /\ IsCombined /\ Returns /\ V >= 2
    /\ \E g \in 1..num_graphs :
          LET r == raw_graph_repr[g]
              od == obj._out_dim
          IN  /\ SubSeq(r, 1, od) # SubSeq(r, od + 1, 2 * od)
              /\ SubSeq(r, od + 1, 2 * od) # SubSeq(r, 2 * od + 1, 3 * od)
              /\ SubSeq(r, 1, od) # SubSeq(r, 2 * od + 1, 3 * od)
              /\ \E c \in 1..(3 * od) : r[c] < 0

\* The tokens of argv that --config takes as its argument, and the others
\* that are not the flag.
FilePositions == {i \in 2..Len(argv) : argv[i - 1] = Flag}
CliPositions == {i \in 1..Len(argv) : argv[i] # Flag /\ i \notin FilePositions}

\* The value of key k in the last source that sets it: the last override of k
\* on the command line, else the last --config file with a line for k, else
\* the default.
LastSet(k) ==
    LET cli == {i \in CliPositions : argv[i][2] = k}
        files == {i \in FilePositions :
                     \E n \in 1..Len(FileLines(argv[i][2])) :
                         FileLines(argv[i][2])[n][1] = k}
        line(lines) == CHOOSE n \in 1..Len(lines) : lines[n][1] = k
    IN  IF cli # {} THEN argv[Max(cli)][3]
        ELSE IF files # {}
        THEN FileLines(argv[Max(files)][2])[line(FileLines(argv[Max(files)][2]))][2]
        ELSE SchemaLines[line(SchemaLines)][2]

\* C7: the configuration get_config returns holds, for every key, the value of
\* the last source that sets it (defaults, then the --config files in order,
\* then the command-line overrides); it is read-only, and a later write fails
\* and leaves it as it is.
C7_ConfigMergedInOrderAndReadOnly ==
    config_err \in {"none", "ReadonlyConfigError"} =>
        /\ readonly
        /\ DOMAIN config = {SchemaLines[n][1] : n \in 1..Len(SchemaLines)}
        /\ \A k \in DOMAIN config : config[k] = LastSet(k)
        /\ last_write # <<>> => config_err = "ReadonlyConfigError"

\* Two files that both set x, in the order b, a, a command-line override of y
\* before them, and a write that was refused.
C7_Witness ==
    /\ argv = <<Override("y", 4), Flag, Path("b.yaml"), Flag, Path("a.yaml")>>
    /\ config_err = "ReadonlyConfigError"
    /\ last_write = <<"x", 7>>
    /\ config["x"] = 1 /\ config["y"] = 4 /\ config["z"] = 0
====
